---- MODULE Spec2Model ----
(***************************************************************************)
(* A model of src/src/components/TaskTracker.tsx: the GlassTaskTracker     *)
(* component (task list, completion log, localStorage write-through, the   *)
(* 20 s reminder interval) and the AddTaskModal form.                      *)
(*                                                                         *)
(* Time is in milliseconds since the epoch, as Date.now() gives it.  An    *)
(* ISO date-time text is modelled as the pair (UTC day, ms of that day)    *)
(* that the text spells out.  A text is a sequence of one-character        *)
(* strings.  A JavaScript value that the code expects to be an array is a  *)
(* record [t |-> type tag, v |-> the elements], so that what JSON.parse    *)
(* hands back when the stored text is not an array can be told apart.      *)
(***************************************************************************)
EXTENDS Integers, Sequences, FiniteSets, TLC

\* ------------------------------------------------------------------ bounds
\* Most tasks the list may hold, most log entries, most 10 s clock steps of
\* the reminder's specification and of the log's.
MaxTasks == 2
MaxLogs == 2
MaxSteps == 6
MaxLogSteps == 2

\* ------------------------------------------------------------ time helpers
IntervalMs == 20000
MinuteMs == 60 * 1000
LateDivisor == 60000
DayMs == 24 * 60 * MinuteMs
\* The clock of the model moves in half intervals.
StepMs == IntervalMs \div 2
\* The local zone of the browser, east of UTC (getFullYear/getMonth/getDate
\* read the local calendar).
TzOffsetMs == 330 * MinuteMs
\* Local midnight between local day 1 and local day 2, in epoch ms.
LocalMidnight == 2 * DayMs - TzOffsetMs
\* The clock starts at 23:58:30 local time.
StartNow == LocalMidnight - 9 * StepMs

\* Date.prototype.toISOString: the UTC date and the UTC time of day.
toISOString(ms) == [date |-> ms \div DayMs, time |-> ms % DayMs]
\* new Date(iso).getTime()
getTime(iso) == iso.date * DayMs + iso.time
\* The local calendar day (year, month, date) of an instant.
LocalDate(ms) == (ms + TzOffsetMs) \div DayMs
\* new Date("yyyy-mm-ddThh:mm") of the datetime-local input: local minutes.
DateFromLocalInput(localMin) == localMin * MinuteMs - TzOffsetMs

\* Math.round: the nearest integer, halves towards +Infinity.
MathRound(num, den) == (2 * num + den) \div (2 * den)
MathMax(a, b) == IF a >= b THEN a ELSE b

\* --------------------------------------------------------------- text helpers
Lower(c) ==
  CASE c = "A" -> "a" [] c = "B" -> "b" [] c = "D" -> "d" [] c = "S" -> "s"
    [] c = "W" -> "w" [] OTHER -> c
\* String.prototype.toLowerCase
toLowerCase(s) == [i \in 1..Len(s) |-> Lower(s[i])]
IsSpace(c) == c = " "
RECURSIVE TrimStart(_)
TrimStart(s) == IF s # <<>> /\ IsSpace(Head(s)) THEN TrimStart(Tail(s)) ELSE s
RECURSIVE TrimEnd(_)
TrimEnd(s) ==
  IF s # <<>> /\ IsSpace(s[Len(s)]) THEN TrimEnd(SubSeq(s, 1, Len(s) - 1)) ELSE s
\* String.prototype.trim
trim(s) == TrimEnd(TrimStart(s))
\* String.prototype.includes
RECURSIVE IncludesFrom(_, _, _)
IncludesFrom(s, q, k) ==
  IF k + Len(q) - 1 > Len(s) THEN FALSE
  ELSE IF SubSeq(s, k, k + Len(q) - 1) = q THEN TRUE
  ELSE IncludesFrom(s, q, k + 1)
includes(s, q) == IncludesFrom(s, q, 1)

\* ------------------------------------------------------------------- data
CATEGORIES == <<"health", "work", "personal", "habit">>
REPEAT == <<"none", "daily", "weekdays", "weekly">>

\* What Math.random().toString(36).slice(2, 10) can return: "i" for 0.5,
\* eight base-36 digits for most draws.  Nothing keeps two draws apart.
UidSpace == {"i", "9x2kq07c"}

DrinkWater == <<"D", "r", "i", "n", "k", " ", "W", "a", "t", "e", "r">>
DeepWorkSprint ==
  <<"D", "e", "e", "p", " ", "W", "o", "r", "k", " ", "S", "p", "r", "i", "n", "t">>

\* The array literal handed to loadLS as the fallback of the task list.
SeedTasks(id1, id2, t) ==
  << [id |-> id1, title |-> DrinkWater, category |-> "health",
      whenISO |-> toISOString(t + 15 * 60 * 1000), estimateMin |-> 1,
      repeat |-> "daily",
      channels |-> [email |-> FALSE, whatsapp |-> FALSE, push |-> TRUE],
      done |-> FALSE, createdAt |-> toISOString(t)],
     [id |-> id2, title |-> DeepWorkSprint, category |-> "work",
      whenISO |-> toISOString(t + 60 * 60 * 1000), estimateMin |-> 50,
      repeat |-> "weekdays",
      channels |-> [email |-> TRUE, whatsapp |-> FALSE, push |-> TRUE],
      done |-> FALSE, createdAt |-> toISOString(t)] >>

\* A JavaScript value where the code expects an array.
Arr(s) == [t |-> "array", v |-> s]
NotArr(tag) == [t |-> tag, v |-> <<>>]
IsArray(x) == x.t = "array"

\* ------------------------------------------------------------------- JSON
\* A stored text: what getItem returns.  k is "none" (no item: null), "empty"
\* (the text ""), "bad" (a text JSON.parse rejects), "null", "object",
\* "number" (texts that parse to a value that is no array) or "array" (the
\* text of an array, v its element texts).  An object's text is the sequence
\* of its <<key, value text>> pairs in property order.
NoItem == [k |-> "none", v |-> <<>>]
RawText(kind) == [k |-> kind, v |-> <<>>]
JPrim(x) == [j |-> "prim", x |-> x]
JObj(pairs) == [j |-> "obj", x |-> pairs]

ChannelsJSON(c) ==
  JObj(<< <<"email", JPrim(c.email)>>, <<"whatsapp", JPrim(c.whatsapp)>>,
          <<"push", JPrim(c.push)>> >>)
TaskJSON(t) ==
  JObj(<< <<"id", JPrim(t.id)>>, <<"title", JPrim(t.title)>>,
          <<"category", JPrim(t.category)>>, <<"whenISO", JPrim(t.whenISO)>>,
          <<"estimateMin", JPrim(t.estimateMin)>>, <<"repeat", JPrim(t.repeat)>>,
          <<"channels", ChannelsJSON(t.channels)>>, <<"done", JPrim(t.done)>>,
          <<"createdAt", JPrim(t.createdAt)>> >>)
OutcomeJSON(o) ==
  JObj(<< <<"status", JPrim(o.status)>>, <<"lateMin", JPrim(o.lateMin)>>,
          <<"note", JPrim(o.note)>> >>)
LogJSON(l) ==
  JObj(<< <<"id", JPrim(l.id)>>, <<"taskId", JPrim(l.taskId)>>,
          <<"title", JPrim(l.title)>>, <<"whenISO", JPrim(l.whenISO)>>,
          <<"outcome", OutcomeJSON(l.outcome)>>,
          <<"timestamp", JPrim(l.timestamp)>> >>)

\* JSON.stringify of the task array and of the log array.
StringifyTasks(a) == [k |-> "array", v |-> [i \in 1..Len(a.v) |-> TaskJSON(a.v[i])]]
StringifyLogs(a) == [k |-> "array", v |-> [i \in 1..Len(a.v) |-> LogJSON(a.v[i])]]

\* JSON.parse of a value text: an object becomes the record of its keys.
RECURSIVE ParseValue(_)
ParseValue(jv) ==
  IF jv.j = "prim" THEN jv.x
  ELSE LET pairs == jv.x
           keys == {pairs[i][1] : i \in 1..Len(pairs)}
           last(key) == CHOOSE i \in 1..Len(pairs) :
                          /\ pairs[i][1] = key
                          /\ \A n \in (i + 1)..Len(pairs) : pairs[n][1] # key
       IN  [key \in keys |-> ParseValue(pairs[last(key)][2])]
\* JSON.parse of a stored text that parses.
JSONparse(raw) ==
  IF raw.k = "array" THEN Arr([i \in 1..Len(raw.v) |-> ParseValue(raw.v[i])])
  ELSE NotArr(raw.k)

\* The cases in which loadLS returns its fallback.
UsesFallback(raw) == raw.k \in {"none", "empty", "bad"}

\* loadLS: the fallback when there is no item or the text is empty (!raw) or
\* JSON.parse throws; otherwise whatever JSON.parse returns, cast to T.
loadLS(raw, fallback) ==
  IF raw.k \in {"none", "empty"} THEN fallback
  ELSE IF raw.k = "bad" THEN fallback
  ELSE JSONparse(raw)

\* ------------------------------------------------------------------ state
VARIABLES
  now,        \* Date.now()
  perm,       \* Notification.permission
  mounted,    \* the component is mounted
  fault,      \* "none", or the error a render threw
  tasks,      \* useState<Task[]>
  logs,       \* useState<Log[]>
  query,      \* useState("")
  filterCat,  \* useState("all")
  showAdd,    \* useState(false): the AddTaskModal is open
  filtered,   \* the useMemo value the task rows are rendered from
  lsTasks,    \* localStorage[LS_KEY]
  lsLogs,     \* localStorage[LS_LOGS_KEY]
  timers,     \* the due times of the interval timers that are set
  upcoming,   \* the tasks notify was called for in this step
  shown,      \* the Notification objects created in this step
  alerted,    \* the text window.alert showed in this step, <<>> if none
  prompted    \* the lateness window.prompt asked about in this step, <<>> if none

vars == <<now, perm, mounted, fault, tasks, logs, query, filterCat, showAdd,
          filtered, lsTasks, lsLogs, timers, upcoming, shown, alerted, prompted>>

\* ---------------------------------------------------------- pure functions
\* The lead time compared without its upper end: diffMs < lead.
isDueSoon_Exclusive(whenISO, leadMinutes, t) ==
  LET diffMs == getTime(whenISO) - t
  IN  diffMs > 0 /\ diffMs < leadMinutes * 60 * 1000
\* isDueSoon(whenISO, leadMinutes) at the instant t.
isDueSoon(whenISO, leadMinutes, t) ==
  LET diffMs == getTime(whenISO) - t
  IN  diffMs > 0 /\ diffMs <= leadMinutes * 60 * 1000

\* The day compared in UTC, as the ISO text spells it.
withinToday_UTC(iso, t) == iso.date = toISOString(t).date
\* withinToday(iso) at the instant t: same local year, month and date.
withinToday(iso, t) == LocalDate(getTime(iso)) = LocalDate(t)

\* formatTime: the local hour and minute, as minutes of the local day.
formatTime(iso) == ((getTime(iso) + TzOffsetMs) % DayMs) \div MinuteMs

\* Array.prototype.sort with the comparator of filtered: a stable sort by
\* getTime(whenISO), ascending (an insertion from the left keeps ties in order).
RECURSIVE InsertByWhen(_, _)
InsertByWhen(sorted, x) ==
  IF sorted = <<>> THEN <<x>>
  ELSE IF getTime(x.whenISO) - getTime(Head(sorted).whenISO) < 0
       THEN <<x>> \o sorted
       ELSE <<Head(sorted)>> \o InsertByWhen(Tail(sorted), x)
RECURSIVE SortByWhen(_)
SortByWhen(a) ==
  IF a = <<>> THEN <<>>
  ELSE InsertByWhen(SortByWhen(SubSeq(a, 1, Len(a) - 1)), a[Len(a)])

\* The search comparing the cases as typed.
TitleMatches_CaseSensitive(task, q) == includes(task.title, q)
CategoryMatches(task, cat) == IF cat = "all" THEN TRUE ELSE task.category = cat
TitleMatches(task, q) == includes(toLowerCase(task.title), toLowerCase(q))

\* The useMemo body of filtered.  It returns the array it was given next to
\* its result: .filter copies, and .sort sorts the copy in place.
useMemoFiltered(a, cat, q) ==
  LET byCat == SelectSeq(a, LAMBDA task : CategoryMatches(task, cat))
      byTitle == SelectSeq(byCat, LAMBDA task : TitleMatches(task, q))
  IN  [tasks |-> a, filtered |-> SortByWhen(byTitle)]

\* The setTasks updaters.
addTaskUpdate(p, task) == p \o <<task>>
toggleDoneUpdate(prev, id) ==
  [i \in 1..Len(prev) |-> IF prev[i].id = id
                          THEN [prev[i] EXCEPT !.done = ~prev[i].done]
                          ELSE prev[i]]
\* The filter with the comparison the wrong way round.
removeTaskUpdate_Inverted(prev, id) == SelectSeq(prev, LAMBDA task : task.id = id)
removeTaskUpdate(prev, id) == SelectSeq(prev, LAMBDA task : task.id # id)

\* logOutcome: the entry and the setLogs updater.
LogEntry(id, task, outcome, t) ==
  [id |-> id, taskId |-> task.id, title |-> task.title, whenISO |-> task.whenISO,
   outcome |-> outcome, timestamp |-> toISOString(t)]
\* The entry put at the end of the log.
logOutcomeUpdate_Append(p, entry) == p \o <<entry>>
logOutcomeUpdate(p, entry) == <<entry>> \o p

\* completeTask: the lateness in whole minutes.
lateMinOf(task, end) ==
  LET start == getTime(task.whenISO)
  IN  MathMax(0, MathRound(end - start, LateDivisor))

\* What window.prompt returns: null on Cancel, else the text typed.
PromptCancel == [given |-> FALSE, text |-> <<>>]
PromptText(s) == [given |-> TRUE, text |-> s]
OnTime == <<"o", "n", "-", "t", "i", "m", "e">>
\* Cancel taken for the fixed note: why ?? "on-time".
noteOf_CancelOnTime(why) == IF why.given THEN why.text ELSE OnTime
\* why || ""
noteOf(why) == IF why.given /\ why.text # <<>> THEN why.text ELSE <<>>

PleaseEnterATitle == <<"Please enter a title">>

\* ----------------------------------------------------------------- inputs
Perms == {"default", "granted", "denied"}
LocalMidnightMin == 2 * 24 * 60
\* What the user can put into the form: a title as typed, a category of the
\* select, a local minute of the datetime-local input.
FormInputs ==
  { [title |-> <<>>, category |-> "health", when |-> LocalMidnightMin],
    [title |-> <<" ">>, category |-> "work", when |-> LocalMidnightMin],
    [title |-> <<"A">>, category |-> "health", when |-> LocalMidnightMin],
    [title |-> <<" ", "a", "b", " ">>, category |-> "work", when |-> LocalMidnightMin - 1],
    [title |-> <<"B">>, category |-> "work", when |-> LocalMidnightMin + 1] }
\* The inputs the store's specification draws from.
StoreFormInputs ==
  {in \in FormInputs : in.title \in {<<>>, <<" ">>, <<" ", "a", "b", " ">>}}
\* The ids uid() draws for log entries there (no code reads a log's id).
StoreLogUids == {"9x2kq07c"}
\* The answers to the lateness prompt there: Cancel, or OK on an empty box.
StoreAnswers == {[given |-> FALSE, text |-> <<>>], [given |-> TRUE, text |-> <<>>]}
Queries == {<<>>, <<"A">>, <<"b">>}
FilterCats == {"all", "work"}
PromptAnswers == {PromptCancel, PromptText(<<>>), PromptText(<<"b", "u", "s", "y">>)}

\* What an earlier session, or anything else writing to the origin's store,
\* can have left under each key.
StoredTaskItems ==
  { NoItem, RawText("empty"), RawText("bad"), RawText("null"), RawText("object"),
    RawText("number"), StringifyTasks(Arr(<<>>)) }
StoredLogItems ==
  { NoItem, RawText("empty"), RawText("bad"), RawText("null"), RawText("object"),
    StringifyLogs(Arr(<<>>)) }

\* ------------------------------------------------------------ the component
\* The two persist effects: localStorage.setItem(key, JSON.stringify(value)).
saveLSTasks(value) == StringifyTasks(value)
\* The log effect writing the log as it was at the first render.
saveLSLogs_Stale(value) == StringifyLogs(Arr(<<>>))
saveLSLogs(value) == StringifyLogs(value)

\* One render and the effects after it, given the arrays the state updaters
\* returned and whether each is a new array (the effects' dependency check).
Commit(newTasks, tasksChanged, newLogs, logsChanged, cat, q) ==
  LET r == useMemoFiltered(newTasks, cat, q)
  IN  /\ tasks' = Arr(r.tasks)
      /\ filtered' = r.filtered
      /\ logs' = Arr(newLogs)
      /\ filterCat' = cat
      /\ query' = q
      /\ lsTasks' = IF tasksChanged THEN saveLSTasks(Arr(r.tasks)) ELSE lsTasks
      /\ lsLogs' = IF logsChanged THEN saveLSLogs(Arr(newLogs)) ELSE lsLogs
      /\ timers' = IF tasksChanged THEN {now + IntervalMs} ELSE timers

Quiet == upcoming' = <<>> /\ shown' = <<>> /\ alerted' = <<>> /\ prompted' = <<>>

\* The first render of a mount and its effects, from the stored items.
MountFrom(rawTasks, rawLogs, id1, id2, t) ==
  LET lt == loadLS(rawTasks, Arr(SeedTasks(id1, id2, t)))
      ll == loadLS(rawLogs, Arr(<<>>))
      ok == IsArray(lt) /\ IsArray(ll)
      r == useMemoFiltered(lt.v, "all", <<>>)
  IN  [ mounted |-> ok,
        fault |-> IF ok THEN "none" ELSE "TypeError",
        tasks |-> IF ok THEN Arr(r.tasks) ELSE lt,
        logs |-> ll,
        filtered |-> IF ok THEN r.filtered ELSE <<>>,
        lsTasks |-> IF ok THEN saveLSTasks(Arr(r.tasks)) ELSE rawTasks,
        lsLogs |-> IF ok THEN saveLSLogs(ll) ELSE rawLogs,
        timers |-> IF ok THEN {t + IntervalMs} ELSE {} ]

\* The first id of the first mount: the second draw is equal to it or not.
SeedUids == {"i"}
\* The state after the first mount, at one of the instants, with one of the
\* stored items under each key and one of the permissions.
InitFrom(taskItems, logItems, instants, perms) ==
  \E rawTasks \in taskItems, rawLogs \in logItems, id1 \in SeedUids, id2 \in UidSpace,
     t \in instants :
    LET m == MountFrom(rawTasks, rawLogs, id1, id2, t)
    IN  /\ now = t
        /\ perm \in perms
        /\ mounted = m.mounted
        /\ fault = m.fault
        /\ tasks = m.tasks
        /\ logs = m.logs
        /\ query = <<>>
        /\ filterCat = "all"
        /\ showAdd = FALSE
        /\ filtered = m.filtered
        /\ lsTasks = m.lsTasks
        /\ lsLogs = m.lsLogs
        /\ timers = m.timers
        /\ upcoming = <<>>
        /\ shown = <<>>
        /\ alerted = <<>>
        /\ prompted = <<>>

\* The first render of a new mount, from what the store holds.
MountNow ==
  /\ \E id1, id2 \in (IF UsesFallback(lsTasks) THEN UidSpace ELSE {"i"}) :
       LET m == MountFrom(lsTasks, lsLogs, id1, id2, now)
       IN  /\ mounted' = m.mounted
           /\ fault' = m.fault
           /\ tasks' = m.tasks
           /\ logs' = m.logs
           /\ filtered' = m.filtered
           /\ lsTasks' = m.lsTasks
           /\ lsLogs' = m.lsLogs
           /\ timers' = m.timers
  /\ query' = <<>>
  /\ filterCat' = "all"
  /\ showAdd' = FALSE
  /\ Quiet
  /\ UNCHANGED <<now, perm>>

\* The page is opened again.
Mount == ~mounted /\ MountNow

\* The page is reloaded: the component goes and is mounted anew.
Reload == mounted /\ MountNow

\* The lifetime ends and the interval is left set.
Unmount_NoCleanup ==
  /\ mounted
  /\ mounted' = FALSE
  /\ query' = <<>>
  /\ filterCat' = "all"
  /\ showAdd' = FALSE
  /\ filtered' = <<>>
  /\ Quiet
  /\ UNCHANGED <<now, perm, fault, tasks, logs, lsTasks, lsLogs, timers>>

\* The component's lifetime ends: the cleanup of the reminder effect runs.
Unmount ==
  /\ mounted
  /\ mounted' = FALSE
  /\ timers' = {}
  /\ query' = <<>>
  /\ filterCat' = "all"
  /\ showAdd' = FALSE
  /\ filtered' = <<>>
  /\ Quiet
  /\ UNCHANGED <<now, perm, fault, tasks, logs, lsTasks, lsLogs>>

\* The user answers the permission request made on mount.
PermissionDecision ==
  /\ mounted
  /\ perm = "default"
  /\ perm' \in {"granted", "denied"}
  /\ Quiet
  /\ UNCHANGED <<now, mounted, fault, tasks, logs, query, filterCat, showAdd,
                 filtered, lsTasks, lsLogs, timers>>

\* Time passes; a timer that is due fires first.
Advance ==
  /\ \A due \in timers : due > now
  /\ now' = now + StepMs
  /\ Quiet
  /\ UNCHANGED <<perm, mounted, fault, tasks, logs, query, filterCat, showAdd,
                 filtered, lsTasks, lsLogs, timers>>

\* notify(title, body): a Notification only with the permission granted.
notify(calls, permission) == IF permission = "granted" THEN calls ELSE <<>>

\* The tasks the interval callback selects.
ReminderScan(a, t) ==
  SelectSeq(a, LAMBDA tk : ~tk.done /\ withinToday(tk.whenISO, t)
                           /\ isDueSoon(tk.whenISO, 1, t))

\* The interval callback of the reminder effect.
TimerFires ==
  /\ \E due \in timers :
       /\ due = now
       /\ timers' = (timers \ {due}) \cup {due + IntervalMs}
  /\ upcoming' = ReminderScan(tasks.v, now)
  /\ shown' = notify([i \in 1..Len(upcoming') |->
                        [title |-> "Reminder",
                         body |-> <<upcoming'[i].title, formatTime(upcoming'[i].whenISO)>>]],
                     perm)
  /\ alerted' = <<>>
  /\ prompted' = <<>>
  /\ UNCHANGED <<now, perm, mounted, fault, tasks, logs, query, filterCat, showAdd,
                 filtered, lsTasks, lsLogs>>

\* ------------------------------------------------------------ user actions
\* Typing into the search box.
SetQuery(q) ==
  /\ mounted
  /\ q # query
  /\ Commit(tasks.v, FALSE, logs.v, FALSE, filterCat, q)
  /\ Quiet
  /\ UNCHANGED <<now, perm, mounted, fault, showAdd>>

\* Choosing a category in the filter select.
SetFilterCat(cat) ==
  /\ mounted
  /\ cat # filterCat
  /\ Commit(tasks.v, FALSE, logs.v, FALSE, cat, query)
  /\ Quiet
  /\ UNCHANGED <<now, perm, mounted, fault, showAdd>>

\* "+ New Task" and the modal's Cancel.
OpenAdd ==
  /\ mounted
  /\ ~showAdd
  /\ showAdd' = TRUE
  /\ Quiet
  /\ UNCHANGED <<now, perm, mounted, fault, tasks, logs, query, filterCat,
                 filtered, lsTasks, lsLogs, timers>>
CloseAdd ==
  /\ mounted
  /\ showAdd
  /\ showAdd' = FALSE
  /\ Quiet
  /\ UNCHANGED <<now, perm, mounted, fault, tasks, logs, query, filterCat,
                 filtered, lsTasks, lsLogs, timers>>

\* The payload AddTaskModal.submit builds.
Payload(in, id, t) ==
  [id |-> id, title |-> trim(in.title), category |-> in.category,
   whenISO |-> toISOString(DateFromLocalInput(in.when)), estimateMin |-> 15,
   repeat |-> "none",
   channels |-> [email |-> FALSE, whatsapp |-> FALSE, push |-> TRUE],
   done |-> FALSE, createdAt |-> toISOString(t)]

\* The guard without the trim: if (!title).
TitleRejected_NoTrim(title) == title = <<>>
\* submit: the guard on the title.
TitleRejected(title) == trim(title) = <<>>

\* AddTaskModal.submit with an empty title: the alert, and nothing else.
SubmitRejected(in) ==
  /\ mounted
  /\ showAdd
  /\ TitleRejected(in.title)
  /\ alerted' = PleaseEnterATitle
  /\ upcoming' = <<>>
  /\ shown' = <<>>
  /\ prompted' = <<>>
  /\ UNCHANGED <<now, perm, mounted, fault, tasks, logs, query, filterCat, showAdd,
                 filtered, lsTasks, lsLogs, timers>>

\* AddTaskModal.submit, onCreate and addTask.
Submit(in, id) ==
  /\ mounted
  /\ showAdd
  /\ ~TitleRejected(in.title)
  /\ Commit(addTaskUpdate(tasks.v, Payload(in, id, now)), TRUE, logs.v, FALSE,
            filterCat, query)
  /\ showAdd' = FALSE
  /\ Quiet
  /\ UNCHANGED <<now, perm, mounted, fault>>

\* The checkbox of the i-th row: toggleDone(t.id).
ToggleDone(i) ==
  /\ mounted
  /\ i \in 1..Len(filtered)
  /\ Commit(toggleDoneUpdate(tasks.v, filtered[i].id), TRUE, logs.v, FALSE,
            filterCat, query)
  /\ Quiet
  /\ UNCHANGED <<now, perm, mounted, fault, showAdd>>

\* The Remove button of the i-th row: removeTask(t.id).
RemoveTask(i) ==
  /\ mounted
  /\ i \in 1..Len(filtered)
  /\ Commit(removeTaskUpdate(tasks.v, filtered[i].id), TRUE, logs.v, FALSE,
            filterCat, query)
  /\ Quiet
  /\ UNCHANGED <<now, perm, mounted, fault, showAdd>>

\* The Mark Done button of the i-th row: completeTask(t), with the answer the
\* user gives if the prompt is shown and the id uid() draws for the entry.
CompleteTask(i, answer, id) ==
  /\ mounted
  /\ i \in 1..Len(filtered)
  /\ LET task == filtered[i]
         lateMin == lateMinOf(task, now)
         why == IF lateMin > 0 THEN answer ELSE PromptText(OnTime)
         outcome == [status |-> "done", lateMin |-> lateMin, note |-> noteOf(why)]
     IN  /\ lateMin = 0 => answer = PromptCancel
         /\ prompted' = IF lateMin > 0 THEN <<lateMin>> ELSE <<>>
         /\ Commit(toggleDoneUpdate(tasks.v, task.id), TRUE,
                   logOutcomeUpdate(logs.v, LogEntry(id, task, outcome, now)), TRUE,
                   filterCat, query)
  /\ upcoming' = <<>>
  /\ shown' = <<>>
  /\ alerted' = <<>>
  /\ UNCHANGED <<now, perm, mounted, fault, showAdd>>

\* -------------------------------------------------------- specifications
\* The store: every mutation and the reload, at a fixed instant.
StoreInstants == {LocalMidnight - 3 * StepMs}
InitStore == InitFrom(StoredTaskItems, StoredLogItems, StoreInstants, {"granted"})
NextStore ==
  \/ Reload
  \/ OpenAdd
  \/ CloseAdd
  \/ \E in \in StoreFormInputs : SubmitRejected(in)
  \/ \E in \in StoreFormInputs, id \in UidSpace :
       Len(tasks.v) < MaxTasks /\ Submit(in, id)
  \/ \E i \in 1..MaxTasks : ToggleDone(i)
  \/ \E i \in 1..MaxTasks : RemoveTask(i)
  \/ \E i \in 1..MaxTasks, answer \in StoreAnswers, id \in StoreLogUids :
       Len(logs.v) < MaxLogs /\ CompleteTask(i, answer, id)
SpecStore == InitStore /\ [][NextStore]_vars

\* The view: the search box and the category filter over a changing list.
ViewTaskItems == {NoItem, StringifyTasks(Arr(<<>>))}
ViewFormInputs == {in \in FormInputs : ~TitleRejected(in.title)}
ViewUids == {"9x2kq07c"}
InitView == InitFrom(ViewTaskItems, {NoItem}, StoreInstants, {"granted"})
NextView ==
  \/ \E q \in Queries : SetQuery(q)
  \/ \E cat \in FilterCats : SetFilterCat(cat)
  \/ OpenAdd
  \/ CloseAdd
  \/ \E in \in ViewFormInputs, id \in ViewUids :
       Len(tasks.v) < MaxTasks /\ Submit(in, id)
  \/ \E i \in 1..MaxTasks : ToggleDone(i)
  \/ \E i \in 1..MaxTasks : RemoveTask(i)
SpecView == InitView /\ [][NextView]_vars

\* The reminder: the clock and the interval timer over a list left by an
\* earlier session, two tasks either side of local midnight.
ClockTasks ==
  << [id |-> "i", title |-> DrinkWater, category |-> "health",
      whenISO |-> toISOString(LocalMidnight - StepMs), estimateMin |-> 1,
      repeat |-> "daily",
      channels |-> [email |-> FALSE, whatsapp |-> FALSE, push |-> TRUE],
      done |-> FALSE,
      createdAt |-> toISOString(LocalMidnight - StepMs - 15 * 60 * 1000)],
     [id |-> "9x2kq07c", title |-> <<"A">>, category |-> "health",
      whenISO |-> toISOString(DateFromLocalInput(LocalMidnightMin)),
      estimateMin |-> 15, repeat |-> "none",
      channels |-> [email |-> FALSE, whatsapp |-> FALSE, push |-> TRUE],
      done |-> FALSE, createdAt |-> toISOString(StartNow - DayMs)] >>
ClockTaskItems == {NoItem, StringifyTasks(Arr(ClockTasks))}
ClockFormInputs == {in \in FormInputs : in.title = <<" ", "a", "b", " ">>}
InitClock == InitFrom(ClockTaskItems, {NoItem}, {StartNow}, Perms)
NextClock ==
  \/ Mount
  \/ Unmount
  \/ PermissionDecision
  \/ now < StartNow + MaxSteps * StepMs /\ Advance
  \/ TimerFires
  \/ OpenAdd
  \/ CloseAdd
  \/ \E in \in ClockFormInputs, id \in ViewUids :
       Len(tasks.v) < MaxTasks /\ Submit(in, id)
  \/ \E i \in 1..MaxTasks : ToggleDone(i)
  \/ \E i \in 1..MaxTasks : RemoveTask(i)
SpecClock == InitClock /\ [][NextClock]_vars

\* The log: completions while the clock runs and the timer ticks, over a list
\* left by an earlier session, a task 20 s overdue; the form adds tasks that
\* are not yet due.
LogTasks ==
  << [id |-> "i", title |-> DrinkWater, category |-> "health",
      whenISO |-> toISOString(StartNow - 2 * StepMs), estimateMin |-> 1,
      repeat |-> "daily",
      channels |-> [email |-> FALSE, whatsapp |-> FALSE, push |-> TRUE],
      done |-> FALSE,
      createdAt |-> toISOString(StartNow - 2 * StepMs - 15 * 60 * 1000)] >>
LogTaskItems == {StringifyTasks(Arr(LogTasks))}
InitLog == InitFrom(LogTaskItems, {NoItem}, {StartNow}, {"granted"})
NextLog ==
  \/ Reload
  \/ now < StartNow + MaxLogSteps * StepMs /\ Advance
  \/ TimerFires
  \/ OpenAdd
  \/ CloseAdd
  \/ \E in \in ClockFormInputs, id \in ViewUids :
       now = StartNow /\ Len(tasks.v) < MaxTasks /\ Submit(in, id)
  \/ \E i \in 1..MaxTasks : ToggleDone(i)
  \/ \E i \in 1..MaxTasks : RemoveTask(i)
  \/ \E i \in 1..MaxTasks, answer \in PromptAnswers, id \in StoreLogUids :
       Len(logs.v) < MaxLogs /\ CompleteTask(i, answer, id)
SpecLog == InitLog /\ [][NextLog]_vars

\* The prompt: completions while the clock runs, over a list left by an
\* earlier session: a task that is 5 min late after one clock step and a task
\* 20 s late at the start (less than half a minute: on time).
PromptTasks ==
  << [id |-> "i", title |-> DrinkWater, category |-> "health",
      whenISO |-> toISOString(StartNow + StepMs - 5 * MinuteMs), estimateMin |-> 1,
      repeat |-> "daily",
      channels |-> [email |-> FALSE, whatsapp |-> FALSE, push |-> TRUE],
      done |-> FALSE,
      createdAt |-> toISOString(StartNow + StepMs - 20 * MinuteMs)],
     [id |-> "9x2kq07c", title |-> <<"A">>, category |-> "work",
      whenISO |-> toISOString(StartNow - 2 * StepMs), estimateMin |-> 15,
      repeat |-> "none",
      channels |-> [email |-> FALSE, whatsapp |-> FALSE, push |-> TRUE],
      done |-> FALSE, createdAt |-> toISOString(StartNow - DayMs)] >>
PromptTaskItems == {StringifyTasks(Arr(PromptTasks))}
InitPrompt == InitFrom(PromptTaskItems, {NoItem}, {StartNow}, {"granted"})
NextPrompt ==
  \/ now < StartNow + MaxLogSteps * StepMs /\ Advance
  \/ TimerFires
  \/ \E i \in 1..MaxTasks : ToggleDone(i)
  \/ \E i \in 1..MaxTasks, answer \in PromptAnswers, id \in StoreLogUids :
       Len(logs.v) < MaxLogs /\ CompleteTask(i, answer, id)
SpecPrompt == InitPrompt /\ [][NextPrompt]_vars

\* ------------------------------------------------------------------ claims
IdsOf(a) == {a[k].id : k \in 1..Len(a)}
LogsOf(id) == {k \in 1..Len(logs.v) : logs.v[k].taskId = id}
\* The nearest whole minute to ms, a half counting up, floored at zero.
IsLateness(m, ms) ==
  /\ m >= 0
  /\ IF 2 * ms < LateDivisor THEN m = 0
     ELSE 2 * m * LateDivisor - LateDivisor <= 2 * ms
          /\ 2 * ms < 2 * m * LateDivisor + LateDivisor

\* C1: Mark Done on any row, whatever the task's completion flag, leaves the
\* task's flag true and puts exactly one new entry into the log, of status
\* "done" and of lateness max(0, round((now - scheduled) / 60000)).
C1_MarkDoneSetsDoneAndLogsOnce ==
  [][\A i \in 1..Len(filtered), answer \in PromptAnswers, id \in UidSpace :
       CompleteTask(i, answer, id) =>
         /\ \A k \in 1..Len(tasks'.v) :
              tasks'.v[k].id = filtered[i].id => tasks'.v[k].done
         /\ Len(logs'.v) = Len(logs.v) + 1
         /\ logs'.v[1].outcome.status = "done"
         /\ IsLateness(logs'.v[1].outcome.lateMin,
                       now - getTime(filtered[i].whenISO))]_vars

\* C2: every task whose completion flag is true is referenced by exactly one
\* log entry, and no task id is referenced by more than one.
C2_OneLogPerCompletedTask ==
  mounted =>
    /\ \A k \in 1..Len(tasks.v) :
         tasks.v[k].done => Cardinality(LogsOf(tasks.v[k].id)) = 1
    /\ \A k \in 1..Len(logs.v) : Cardinality(LogsOf(logs.v[k].taskId)) = 1

\* The positions of a that hold a task of another id than id, and the number
\* of them up to k.
KeptOf(a, id) == {k \in 1..Len(a) : a[k].id # id}
RankIn(S, k) == Cardinality({n \in S : n <= k})

\* C3: Remove on a row takes every task of that row's id out of the task
\* list, keeps the other tasks as they are and in their order, and leaves the
\* log and its stored record as they are.
C3_RemoveKeepsOthersAndLogs ==
  [][\A i \in 1..Len(filtered) :
       RemoveTask(i) =>
         LET id == filtered[i].id
             kept == KeptOf(tasks.v, id)
         IN  /\ id \notin IdsOf(tasks'.v)
             /\ Len(tasks'.v) = Cardinality(kept)
             /\ \A k \in kept : tasks'.v[RankIn(kept, k)] = tasks.v[k]
             /\ logs' = logs
             /\ lsLogs' = lsLogs]_vars
\* A log entry outlives its task: an entry refers to a task that is gone.
C3_Witness ==
  /\ mounted
  /\ tasks.v # <<>>
  /\ \E k \in 1..Len(logs.v) : logs.v[k].taskId \notin IdsOf(tasks.v)

\* q occurs in title at some offset, letter case aside.
ContainsNoCase(title, q) ==
  \E off \in 0..Len(title) :
    /\ off + Len(q) <= Len(title)
    /\ \A k \in 1..Len(q) : Lower(title[off + k]) = Lower(q[k])
Visible(task) ==
  /\ filterCat # "all" => task.category = filterCat
  /\ ContainsNoCase(task.title, query)
CountIn(a, x) == Cardinality({k \in 1..Len(a) : a[k] = x})
VisibleCount(x) == IF Visible(x) THEN CountIn(tasks.v, x) ELSE 0

\* C4: the visible list holds exactly the tasks of the task list whose
\* category is the filter's (all of them without a filter) and whose title
\* contains the search text, letter case aside, each as often as the task
\* list holds it, in ascending order of scheduled time; without a filter and
\* with an empty search text it holds every task of the list.  Typing a
\* search text or choosing a filter leaves the task list and its stored
\* record as they are.
C4_VisibleListDerived ==
  /\ [](mounted =>
         /\ \A k \in 1..Len(filtered) :
              CountIn(filtered, filtered[k]) = VisibleCount(filtered[k])
         /\ \A k \in 1..Len(tasks.v) :
              CountIn(filtered, tasks.v[k]) = VisibleCount(tasks.v[k])
         /\ \A k, n \in 1..Len(filtered) :
              k < n => getTime(filtered[k].whenISO) <= getTime(filtered[n].whenISO)
         /\ (filterCat = "all" /\ query = <<>>) => Len(filtered) = Len(tasks.v))
  /\ [][((\E q \in Queries : SetQuery(q)) \/ (\E cat \in FilterCats : SetFilterCat(cat)))
          => UNCHANGED <<tasks, lsTasks>>]_vars
\* A search text in another case than the title's hides one of two tasks, and
\* the list is not in the order of the scheduled times.
C4_Witness ==
  /\ mounted
  /\ query = <<"A">>
  /\ Len(tasks.v) = 2
  /\ Len(filtered) = 1
  /\ "a" \in {filtered[1].title[k] : k \in 1..Len(filtered[1].title)}
  /\ getTime(tasks.v[1].whenISO) > getTime(tasks.v[2].whenISO)

\* C5: once a mutation has been processed, the stored task record and the
\* stored log record read back as the task list and the log list in memory
\* (same fields, same order), so a reload restores them.
C5_StoreMirrorsMemory ==
  mounted =>
    /\ ~UsesFallback(lsTasks) /\ JSONparse(lsTasks) = tasks
    /\ ~UsesFallback(lsLogs) /\ JSONparse(lsLogs) = logs
\* Two log entries and a completed task are in memory and in the store.
C5_Witness ==
  /\ mounted
  /\ Len(logs.v) = 2
  /\ \E k \in 1..Len(tasks.v) : tasks.v[k].done
  /\ \E k \in 1..Len(tasks.v) : ~tasks.v[k].done
  /\ lsLogs.k = "array" /\ Len(lsLogs.v) = 2

\* A title with nothing in it but blanks.
IsBlank(title) == \A k \in 1..Len(title) : title[k] = " "
SubmitOf(in) == SubmitRejected(in) \/ \E id \in UidSpace : Submit(in, id)

\* C10: in every step the new log list is the old one, or one new entry in
\* front of the old one; no step edits, reorders or removes an entry.
C10_LogPrependOnly ==
  [][\/ logs' = logs
     \/ /\ Len(logs'.v) = Len(logs.v) + 1
        /\ \A k \in 1..Len(logs.v) : logs'.v[k + 1] = logs.v[k]
        /\ \A k \in 1..Len(logs.v) :
             getTime(logs'.v[1].timestamp) >= getTime(logs.v[k].timestamp)]_vars
\* A later completion stands in front of an earlier one, after a tick.
C10_Witness ==
  /\ mounted
  /\ Len(logs.v) = 2
  /\ getTime(logs.v[1].timestamp) > getTime(logs.v[2].timestamp)
  /\ logs.v[1].taskId # logs.v[2].taskId
  /\ timers = {now + StepMs}
  /\ Len(tasks.v) = 1

\* The positions of the task list a reminder is due for at the instant t: not
\* completed, scheduled on the local day of t, after t and at most a minute
\* after it.
DueAt(t) ==
  {k \in 1..Len(tasks.v) :
     /\ ~tasks.v[k].done
     /\ LocalDate(getTime(tasks.v[k].whenISO)) = LocalDate(t)
     /\ t < getTime(tasks.v[k].whenISO)
     /\ getTime(tasks.v[k].whenISO) <= t + MinuteMs}
\* The tick calls notify for exactly the tasks at the positions S, in order.
NotifiesExactly(S) ==
  /\ Len(upcoming') = Cardinality(S)
  /\ \A k \in S : upcoming'[RankIn(S, k)] = tasks.v[k]
ScheduledIn(ms) ==
  {k \in 1..Len(tasks.v) : ~tasks.v[k].done /\ getTime(tasks.v[k].whenISO) = now + ms}

C7_EmptyTitleRejected ==
  [][\A in \in FormInputs :
       SubmitOf(in) =>
         IF IsBlank(in.title)
         THEN /\ alerted' = PleaseEnterATitle
              /\ UNCHANGED <<tasks, logs, lsTasks, lsLogs>>
         ELSE /\ Len(tasks'.v) = Len(tasks.v) + 1
              /\ tasks'.v[Len(tasks'.v)].title # <<>>
              /\ ~IsBlank(tasks'.v[Len(tasks'.v)].title)]_vars
\* The alert is up over the open form, and nothing was added.
C7_Witness ==
  /\ mounted
  /\ showAdd
  /\ alerted = PleaseEnterATitle
  /\ Len(tasks.v) = 2

\* C8: whatever the stored records hold, the task list and the log list in
\* memory are arrays after the load and no error is raised.
C8_LoadAlwaysYieldsLists ==
  /\ IsArray(tasks)
  /\ IsArray(logs)
  /\ fault = "none"

\* C9: the ids of the tasks in the task list are pairwise distinct.
C9_TaskIdsDistinct ==
  mounted =>
    \A k, n \in 1..Len(tasks.v) : tasks.v[k].id = tasks.v[n].id => k = n

\* C11: while the component is mounted the scan runs every 20 s: a tick sets
\* the next scan 20 s after itself, and no other step (add, toggle, remove,
\* mark complete, the form, the permission, the clock) moves or cancels the
\* scan that is due 20 s after the previous one or after the mount.
C11_ScanEveryTwentySeconds ==
  [][(mounted /\ mounted' /\ ~Reload) =>
       IF TimerFires THEN timers' = {now + IntervalMs}
       ELSE timers' = timers]_vars

\* C12: at most one interval timer is set at any time, however often the task
\* list changes; once the component is unmounted no timer is set, and no scan
\* runs and no notification is shown until it is mounted again.
C12_OneTimerClearedOnUnmount ==
  /\ [](/\ Cardinality(timers) <= 1
        /\ mounted => Cardinality(timers) = 1
        /\ ~mounted => (timers = {} /\ upcoming = <<>> /\ shown = <<>>))
  /\ [][~mounted => ~TimerFires]_vars
\* The component was unmounted after the task list had changed, and the clock
\* has passed the time its last timer was due.
C12_Witness ==
  /\ ~mounted
  /\ fault = "none"
  /\ timers = {}
  /\ Len(tasks.v) = 2
  /\ tasks.v[2].title = <<"a", "b">>
  /\ tasks.v[1].done
  /\ now >= getTime(tasks.v[2].createdAt) + 2 * IntervalMs

\* C13: Mark Done asks for a reason exactly when the lateness is greater than
\* 0; the new entry's note is "on-time" when the lateness is 0, the answer
\* when the lateness is greater than 0 and an answer was typed, and empty when
\* the lateness is greater than 0 and the user cancelled or typed nothing.  A
\* task completed 5 min after its scheduled time with no reason given yields
\* lateness 5, status "done" and an empty note.
C13_PromptIffLate ==
  [][\A i \in 1..Len(filtered), answer \in PromptAnswers, id \in UidSpace :
       CompleteTask(i, answer, id) =>
         LET elapsed == now - getTime(filtered[i].whenISO)
             entry == logs'.v[1]
             late == entry.outcome.lateMin
             note == entry.outcome.note
             asked == prompted' # <<>>
             typed == answer.given /\ answer.text # <<>>
         IN  /\ entry.taskId = filtered[i].id
             /\ IsLateness(late, elapsed)
             /\ asked <=> late > 0
             /\ asked => prompted' = <<late>>
             /\ late = 0 => note = OnTime
             /\ (late > 0 /\ typed) => note = answer.text
             /\ (late > 0 /\ ~typed) => note = <<>>
             /\ (elapsed = 5 * MinuteMs /\ ~typed) =>
                  (late = 5 /\ entry.outcome.status = "done" /\ note = <<>>)]_vars
\* The task 5 min late was just completed with the prompt cancelled, after
\* the other was completed on time.
C13_Witness ==
  /\ mounted
  /\ prompted = <<5>>
  /\ Len(logs.v) = 2
  /\ getTime(logs.v[1].timestamp) - getTime(logs.v[1].whenISO) = 5 * MinuteMs
  /\ logs.v[1].outcome = [status |-> "done", lateMin |-> 5, note |-> <<>>]
  /\ logs.v[2].outcome = [status |-> "done", lateMin |-> 0, note |-> OnTime]
  /\ getTime(logs.v[2].timestamp) > getTime(logs.v[2].whenISO)

====
